---- MODULE Spec2Model ----
(***************************************************************************)
(* State-machine model of the Utils repository:                            *)
(*   - ProjectPaths (src/project_paths.py): resolution of the project      *)
(*     directory at construction and the get_*_path accessors, over a      *)
(*     filesystem of directories and regular files;                        *)
(*   - PickleHandler (src/pickle_handler.py): save_pickle / load_pickle    *)
(*     over a store of files.                                              *)
(* A path is the sequence of its segments; <<>> is the filesystem root.    *)
(***************************************************************************)
EXTENDS Naturals, Sequences, FiniteSets, TLC

VARIABLES
    dirs,            \* filesystem: the paths that are directories
    files,           \* filesystem: the paths that are regular files
    search_paths,    \* ProjectPaths argument: [given, list]; given = FALSE is None
    append_subdirs,  \* ProjectPaths argument: [given, list]
    pc,              \* "new" (before construction), "resolved", "failed"
    base_path,       \* self.base_path (NoPath while there is no object)
    datasets_root,   \* self.datasets_root
    results_root,    \* self.results_root
    figures_root,    \* self.figures_root
    sys_path,        \* what the constructor appended to sys.path
    checked,         \* the paths exists() was asked about, in order
    error,           \* the exception that ended construction, or NoError
    last,            \* the latest accessor call: arguments, outcome, dirs before it
    prev,            \* the accessor call before it
    ncalls,          \* number of accessor calls made
    disk,            \* PickleHandler: file name -> bytes on disk, or Absent
    pk                \* PickleHandler: the latest save/load call and its outcome

locatorVars == <<dirs, files, search_paths, append_subdirs, pc, base_path,
                 datasets_root, results_root, figures_root, sys_path, checked,
                 error, last, prev, ncalls>>
pickleVars == <<disk, pk>>
vars == <<locatorVars, pickleVars>>

---------------------------------------------------------------------------
(* Bounds and sample inputs *)

\* longest caller-supplied search_paths list
MaxCand == 2
\* accessor calls explored after construction
MaxCalls == 2

project == "MyProj"
user == "wks"

NoPath == <<>>
A == <<"A">>
B == <<"B">>
\* caller-supplied candidate base directories
CandidateBases == {A, B}
\* *path_parts tuples passed to the accessors (subfolder names)
PathParts == {<<>>, <<"jan">>, <<"jan", "plots">>}
\* values of get_datasets_path's processed parameter
ProcessedModes == {"False", "True", "both"}

---------------------------------------------------------------------------
(* pathlib / os primitives used by the code *)

\* all non-root prefixes of p, p included: p and the ancestors mkdir(parents=True) may create
Chain(p) == {SubSeq(p, 1, k) : k \in 1..Len(p)}

Parent(p) == SubSeq(p, 1, Len(p) - 1)

IsDir(ds, p) == p = <<>> \/ p \in ds

\* Path.exists(): true of a directory and of a regular file alike
Exists(ds, fl, p) == IsDir(ds, p) \/ p \in fl

\* Python truthiness of an optional list: None and [] are both falsy
Truthy(opt) == opt.given /\ Len(opt.list) > 0

\* Path.mkdir(parents=True, exist_ok=...): [raised, dirs]
RECURSIVE MkdirParents(_, _, _, _)
MkdirParents(ds, fl, p, exist_ok) ==
    IF IsDir(ds, p)
      THEN IF exist_ok THEN [raised |-> "", dirs |-> ds]
                       ELSE [raised |-> "FileExistsError", dirs |-> ds]
    ELSE IF p \in fl THEN [raised |-> "FileExistsError", dirs |-> ds]
    ELSE IF Parent(p) \in fl THEN [raised |-> "NotADirectoryError", dirs |-> ds]
    ELSE IF IsDir(ds, Parent(p)) THEN [raised |-> "", dirs |-> ds \cup {p}]
    ELSE LET up == MkdirParents(ds, fl, Parent(p), TRUE)
         IN  IF up.raised # "" THEN up
             ELSE [raised |-> "", dirs |-> up.dirs \cup {p}]

mkdir_exist_ok_false(ds, fl, p) == MkdirParents(ds, fl, p, FALSE)

\* path.mkdir(parents=True, exist_ok=True)
mkdir(ds, fl, p) == MkdirParents(ds, fl, p, TRUE)

---------------------------------------------------------------------------
(* ProjectPaths *)

default_paths ==
    << <<"C:", "Users", user, "OneDrive - Universita degli Studi di Bari (1)", "Projects">>,
       <<"C:", "Users", user, "OneDrive - Universita degli Studi di Bari", "Projects">> >>

github_root == <<"C:", "Users", user, "Github">>

\* the FileNotFoundError message: a template and the values interpolated into it
NotFoundMessage(proj, usr) ==
    [template |-> "[ERROR] Project '{}' not found in provided search paths for user '{}'.",
     fields |-> << <<proj>>, <<usr>> >>]

NoError == [kind |-> "", message |-> [template |-> "", fields |-> <<>>]]

\* candidate_paths of _find_project_path
candidate_paths(sp) == IF Truthy(sp) THEN sp.list ELSE default_paths

\* the for loop of _find_project_path from index i on, log the probes made so far
RECURSIVE ScanCandidates(_, _, _, _, _)
ScanCandidates(ds, fl, cands, i, log) ==
    IF i > Len(cands) THEN [found |-> FALSE, path |-> NoPath, checked |-> log]
    ELSE LET project_path == cands[i] \o <<project>>
         IN  IF Exists(ds, fl, project_path)
               THEN [found |-> TRUE, path |-> project_path,
                     checked |-> Append(log, project_path)]
               ELSE ScanCandidates(ds, fl, cands, i + 1, Append(log, project_path))

\* the loop keeps the latest match instead of returning the first
RECURSIVE ScanCandidatesLast(_, _, _, _, _, _)
ScanCandidatesLast(ds, fl, cands, i, log, best) ==
    IF i > Len(cands)
      THEN [found |-> best # NoPath, path |-> best, checked |-> log]
    ELSE LET project_path == cands[i] \o <<project>>
         IN  ScanCandidatesLast(ds, fl, cands, i + 1, Append(log, project_path),
                                IF Exists(ds, fl, project_path) THEN project_path ELSE best)

_find_project_path_last(ds, fl, sp) ==
    ScanCandidatesLast(ds, fl, candidate_paths(sp), 1, <<>>, NoPath)

_find_project_path(ds, fl, sp) == ScanCandidates(ds, fl, candidate_paths(sp), 1, <<>>)

\* the for loop of _append_to_syspath: the existing subdirectories, in order
RECURSIVE AppendExisting(_, _, _, _)
AppendExisting(ds, fl, subs, acc) ==
    IF subs = <<>> THEN acc
    ELSE LET full_path == github_root \o <<Head(subs)>>
         IN  AppendExisting(ds, fl, Tail(subs),
                            IF Exists(ds, fl, full_path) THEN Append(acc, full_path) ELSE acc)

_append_to_syspath(ds, fl, subdirs) ==
    IF ~Truthy(subdirs) THEN [raised |-> "", sys_path |-> <<>>]
    ELSE IF ~Exists(ds, fl, github_root) THEN [raised |-> "ValueError", sys_path |-> <<>>]
    ELSE [raised |-> "", sys_path |-> AppendExisting(ds, fl, subdirs.list, <<>>)]

\* ProjectPaths.__init__: an exception leaves no object, hence no attributes
Construct ==
    /\ pc = "new"
    /\ LET r == _find_project_path(dirs, files, search_paths)
           a == _append_to_syspath(dirs, files, append_subdirs)
       IN  /\ checked' = r.checked
           /\ IF ~r.found
                THEN /\ pc' = "failed"
                     /\ error' = [kind |-> "FileNotFoundError",
                                  message |-> NotFoundMessage(project, user)]
                     /\ UNCHANGED <<base_path, datasets_root, results_root,
                                    figures_root, sys_path>>
              ELSE IF a.raised # ""
                THEN /\ pc' = "failed"
                     /\ error' = [kind |-> a.raised,
                                  message |-> [template |-> "[ERROR] 'Github' directory not found for user '{}'.",
                                               fields |-> << <<user>> >>]]
                     /\ UNCHANGED <<base_path, datasets_root, results_root,
                                    figures_root, sys_path>>
              ELSE /\ pc' = "resolved"
                   /\ base_path' = r.path
                   /\ datasets_root' = r.path \o <<"01_Datasets">>
                   /\ results_root' = r.path \o <<"02_Results">>
                   /\ figures_root' = r.path \o <<"03_Figures">>
                   /\ sys_path' = a.sys_path
                   /\ error' = NoError
    /\ UNCHANGED <<dirs, files, search_paths, append_subdirs, last, prev, ncalls>>
    /\ UNCHANGED pickleVars

---------------------------------------------------------------------------
(* Accessors.  A returned value is a tuple of optional paths: Some(p) or None. *)

Some(p) == <<p>>
None == <<>>

\* _get_subfolder_path(root, *path_parts, subfolder=..., create=...): [raised, path, dirs]
_get_subfolder_path(ds, fl, root, path_parts, subfolder, create) ==
    LET joined == root \o path_parts
        path == IF subfolder # "" THEN joined \o <<subfolder>> ELSE joined
        made == IF create THEN mkdir(ds, fl, path) ELSE [raised |-> "", dirs |-> ds]
    IN  [raised |-> made.raised, path |-> path, dirs |-> made.dirs]

\* "both" returns the pair in the order (processed, raw)
get_datasets_path_swapped(ds, fl, root, path_parts, processed) ==
    LET raw == _get_subfolder_path(ds, fl, root, <<"raw">> \o path_parts, "", TRUE)
        proc == _get_subfolder_path(raw.dirs, fl, root, <<"processed">> \o path_parts, "", TRUE)
    IN  IF raw.raised # "" THEN [raised |-> raw.raised, ret |-> <<>>, dirs |-> raw.dirs]
        ELSE IF proc.raised # "" THEN [raised |-> proc.raised, ret |-> <<>>, dirs |-> proc.dirs]
        ELSE IF processed = "both"
               THEN [raised |-> "", ret |-> <<Some(proc.path), Some(raw.path)>>, dirs |-> proc.dirs]
        ELSE [raised |-> "",
              ret |-> <<Some(IF processed = "True" THEN proc.path ELSE raw.path)>>,
              dirs |-> proc.dirs]

\* get_datasets_path(*path_parts, processed=...): [raised, ret, dirs]
get_datasets_path(ds, fl, root, path_parts, processed) ==
    LET raw_path == _get_subfolder_path(ds, fl, root, <<"raw">> \o path_parts, "", TRUE)
        proc_path == _get_subfolder_path(raw_path.dirs, fl, root,
                                         <<"processed">> \o path_parts, "", TRUE)
    IN  IF raw_path.raised # ""
          THEN [raised |-> raw_path.raised, ret |-> <<>>, dirs |-> raw_path.dirs]
        ELSE IF proc_path.raised # ""
          THEN [raised |-> proc_path.raised, ret |-> <<>>, dirs |-> proc_path.dirs]
        ELSE IF processed = "both"
          THEN [raised |-> "", ret |-> <<Some(raw_path.path), Some(proc_path.path)>>,
                dirs |-> proc_path.dirs]
        ELSE [raised |-> "",
              ret |-> <<Some(IF processed = "True" THEN proc_path.path ELSE raw_path.path)>>,
              dirs |-> proc_path.dirs]

\* the plots folder is created whatever the plots argument says
get_results_path_always_plots(ds, fl, root, path_parts, plots) ==
    LET base == _get_subfolder_path(ds, fl, root, path_parts, "", TRUE)
        pl == _get_subfolder_path(base.dirs, fl, base.path, <<>>, "plots", TRUE)
    IN  IF base.raised # "" THEN [raised |-> base.raised, ret |-> <<>>, dirs |-> base.dirs]
        ELSE IF pl.raised # "" THEN [raised |-> pl.raised, ret |-> <<>>, dirs |-> pl.dirs]
        ELSE [raised |-> "",
              ret |-> <<Some(base.path), IF plots THEN Some(pl.path) ELSE None>>,
              dirs |-> pl.dirs]

\* get_results_path(*path_parts, plots=...): [raised, ret, dirs]
get_results_path(ds, fl, root, path_parts, plots) ==
    LET base == _get_subfolder_path(ds, fl, root, path_parts, "", TRUE)
        plots_path == _get_subfolder_path(base.dirs, fl, base.path, <<>>, "plots", TRUE)
    IN  IF base.raised # "" THEN [raised |-> base.raised, ret |-> <<>>, dirs |-> base.dirs]
        ELSE IF ~plots
          THEN [raised |-> "", ret |-> <<Some(base.path), None>>, dirs |-> base.dirs]
        ELSE IF plots_path.raised # ""
          THEN [raised |-> plots_path.raised, ret |-> <<>>, dirs |-> plots_path.dirs]
        ELSE [raised |-> "", ret |-> <<Some(base.path), Some(plots_path.path)>>,
              dirs |-> plots_path.dirs]

\* get_figures_path(*path_parts): [raised, ret, dirs]
get_figures_path(ds, fl, root, path_parts) ==
    LET path == _get_subfolder_path(ds, fl, root, path_parts, "", TRUE)
    IN  IF path.raised # "" THEN [raised |-> path.raised, ret |-> <<>>, dirs |-> path.dirs]
        ELSE [raised |-> "", ret |-> <<Some(path.path)>>, dirs |-> path.dirs]

NoCall == [op |-> "none", parts |-> <<>>, flag |-> "", ret |-> <<>>, raised |-> "",
           before |-> {}]

Call(op, parts, flag, r) ==
    [op |-> op, parts |-> parts, flag |-> flag, ret |-> r.ret, raised |-> r.raised,
     before |-> dirs]

GetDatasetsPath ==
    /\ pc = "resolved"
    /\ ncalls < MaxCalls
    /\ \E path_parts \in PathParts, processed \in ProcessedModes :
         LET r == get_datasets_path(dirs, files, datasets_root, path_parts, processed)
         IN  /\ dirs' = r.dirs
             /\ last' = Call("get_datasets_path", path_parts, processed, r)
    /\ prev' = last
    /\ ncalls' = ncalls + 1
    /\ UNCHANGED <<files, search_paths, append_subdirs, pc, base_path, datasets_root,
                   results_root, figures_root, sys_path, checked, error>>
    /\ UNCHANGED pickleVars

\* the local variable base_path of get_results_path is written to self.base_path
GetResultsPathRebinding ==
    /\ pc = "resolved"
    /\ ncalls < MaxCalls
    /\ \E path_parts \in PathParts, plots \in BOOLEAN :
         LET r == get_results_path(dirs, files, results_root, path_parts, plots)
         IN  /\ dirs' = r.dirs
             /\ last' = Call("get_results_path", path_parts,
                             IF plots THEN "True" ELSE "False", r)
             /\ base_path' = IF r.raised = "" THEN r.ret[1][1] ELSE base_path
    /\ prev' = last
    /\ ncalls' = ncalls + 1
    /\ UNCHANGED <<files, search_paths, append_subdirs, pc, datasets_root,
                   results_root, figures_root, sys_path, checked, error>>
    /\ UNCHANGED pickleVars

GetResultsPath ==
    /\ pc = "resolved"
    /\ ncalls < MaxCalls
    /\ \E path_parts \in PathParts, plots \in BOOLEAN :
         LET r == get_results_path(dirs, files, results_root, path_parts, plots)
         IN  /\ dirs' = r.dirs
             /\ last' = Call("get_results_path", path_parts,
                             IF plots THEN "True" ELSE "False", r)
    /\ prev' = last
    /\ ncalls' = ncalls + 1
    /\ UNCHANGED <<files, search_paths, append_subdirs, pc, base_path, datasets_root,
                   results_root, figures_root, sys_path, checked, error>>
    /\ UNCHANGED pickleVars

GetFiguresPath ==
    /\ pc = "resolved"
    /\ ncalls < MaxCalls
    /\ \E path_parts \in PathParts :
         LET r == get_figures_path(dirs, files, figures_root, path_parts)
         IN  /\ dirs' = r.dirs
             /\ last' = Call("get_figures_path", path_parts, "", r)
    /\ prev' = last
    /\ ncalls' = ncalls + 1
    /\ UNCHANGED <<files, search_paths, append_subdirs, pc, base_path, datasets_root,
                   results_root, figures_root, sys_path, checked, error>>
    /\ UNCHANGED pickleVars

---------------------------------------------------------------------------
(* PickleHandler.  An object is the sequence of its items; item 0 stands for *)
(* a value pickle cannot serialize (a lambda, an open handle).               *)

Absent == [exists |-> FALSE, bytes |-> <<>>]
Stored(b) == [exists |-> TRUE, bytes |-> b]

\* file_path values: two files in an existing directory, one under a missing directory
PickleFiles == {"data.pkl", "model.pkl", "missing_dir/data.pkl"}
CanOpenForWrite(f) == f # "missing_dir/data.pkl"

Objects == {<<>>, <<1>>, <<1, 2>>, <<0>>, <<1, 0>>}
Picklable(obj) == \A i \in 1..Len(obj) : obj[i] # 0

\* index of the first item pickle cannot serialize
RECURSIVE FirstBad(_, _)
FirstBad(obj, i) == IF obj[i] = 0 THEN i ELSE FirstBad(obj, i + 1)

\* pickle.dumps: protocol header, the items, STOP
Dumps(obj) == <<128>> \o obj \o <<46>>

\* pickle.loads: [raised, obj]
Loads(b) ==
    IF Len(b) = 0 THEN [raised |-> "EOFError", obj |-> <<>>]
    ELSE IF b[1] # 128 THEN [raised |-> "UnpicklingError", obj |-> <<>>]
    ELSE IF b[Len(b)] # 46 \/ Len(b) < 2 THEN [raised |-> "EOFError", obj |-> <<>>]
    ELSE [raised |-> "", obj |-> SubSeq(b, 2, Len(b) - 1)]

\* save_pickle(obj, file_path); flushed is how many bytes reached the file when
\* pickle.dump raised: [raised, disk, logged]
save_pickle(d, obj, file_path, flushed) ==
    IF ~CanOpenForWrite(file_path)
      THEN [raised |-> "FileNotFoundError", disk |-> d,
            logged |-> "[PickleHandler][ERROR] Failed to save object"]
    ELSE IF Picklable(obj)
      THEN [raised |-> "", disk |-> [d EXCEPT ![file_path] = Stored(Dumps(obj))],
            logged |-> "[PickleHandler] Object saved"]
    ELSE [raised |-> "PicklingError",
          disk |-> [d EXCEPT ![file_path] = Stored(SubSeq(Dumps(obj), 1, flushed))],
          logged |-> "[PickleHandler][ERROR] Failed to save object"]

\* load_pickle(file_path): [raised, obj, logged]
load_pickle(d, file_path) ==
    IF ~d[file_path].exists
      THEN [raised |-> "FileNotFoundError", obj |-> <<>>,
            logged |-> "[PickleHandler][ERROR] Failed to load object"]
    ELSE LET r == Loads(d[file_path].bytes)
         IN  IF r.raised # ""
               THEN [raised |-> r.raised, obj |-> <<>>,
                     logged |-> "[PickleHandler][ERROR] Failed to load object"]
               ELSE [raised |-> "", obj |-> r.obj,
                     logged |-> "[PickleHandler] Object loaded"]

NoPickleCall == [op |-> "none", file_path |-> "", obj |-> <<>>, raised |-> "",
                 logged |-> "", before |-> Absent]

SavePickle ==
    /\ \E obj \in Objects, file_path \in PickleFiles :
         \E flushed \in 0..(IF Picklable(obj) THEN 0 ELSE FirstBad(obj, 1)) :
           LET r == save_pickle(disk, obj, file_path, flushed)
           IN  /\ disk' = r.disk
               /\ pk' = [op |-> "save_pickle", file_path |-> file_path, obj |-> obj,
                         raised |-> r.raised, logged |-> r.logged,
                         before |-> disk[file_path]]
    /\ UNCHANGED locatorVars

LoadPickle ==
    /\ \E file_path \in PickleFiles :
         LET r == load_pickle(disk, file_path)
         IN  pk' = [op |-> "load_pickle", file_path |-> file_path, obj |-> r.obj,
                    raised |-> r.raised, logged |-> r.logged,
                    before |-> disk[file_path]]
    /\ UNCHANGED disk
    /\ UNCHANGED locatorVars

---------------------------------------------------------------------------
(* Initial states and specifications *)

SeqsUpTo(S, n) == UNION {[1..k -> S] : k \in 0..n}

NoneArg == [given |-> FALSE, list |-> <<>>]
Given(l) == [given |-> TRUE, list |-> l]

\* the directories a directory at p implies
TreeOf(kind, p) == IF kind = "dir" THEN Chain(p) ELSE IF kind = "file" THEN Chain(Parent(p)) ELSE {}
FileOf(kind, p) == IF kind = "file" THEN {p} ELSE {}

LocatorIdle ==
    /\ pc = "new"
    /\ base_path = NoPath
    /\ datasets_root = NoPath
    /\ results_root = NoPath
    /\ figures_root = NoPath
    /\ sys_path = <<>>
    /\ checked = <<>>
    /\ error = NoError
    /\ last = NoCall
    /\ prev = NoCall
    /\ ncalls = 0

PickleIdle ==
    /\ disk = [f \in PickleFiles |-> Absent]
    /\ pk = NoPickleCall

Kinds == {"none", "dir", "file"}

\* the project's path under candidate A, and a results subfolder name taken by a file
ProjectA == A \o <<project>>
Obstacle == ProjectA \o <<"02_Results", "jan">>

\* a filesystem before the program runs: what sits at A/project, at B/project,
\* at the second default location, at the Github folder and its lib subfolder,
\* and whether a regular file sits where a results subfolder would go
FsDirs(kA, kB, kD, kG, kL, kO) ==
    TreeOf(kA, ProjectA) \cup TreeOf(kB, B \o <<project>>)
    \cup TreeOf(kD, default_paths[2] \o <<project>>)
    \cup TreeOf(kG, github_root)
    \cup TreeOf(IF kG = "dir" THEN kL ELSE "none", github_root \o <<"lib">>)
    \cup TreeOf(IF kA = "dir" THEN kO ELSE "none", Obstacle)

FsFiles(kA, kB, kO) ==
    FileOf(kA, ProjectA) \cup FileOf(kB, B \o <<project>>)
    \cup FileOf(IF kA = "dir" THEN kO ELSE "none", Obstacle)

\* construction over every filesystem and every argument list up to MaxCand
InitResolve ==
    /\ \E kA \in Kinds, kB \in Kinds, kD \in {"none", "dir"},
          kG \in {"none", "dir"}, kL \in {"none", "dir"} :
         /\ dirs = FsDirs(kA, kB, kD, kG, kL, "none")
         /\ files = FsFiles(kA, kB, "none")
    /\ search_paths \in {NoneArg} \cup {Given(l) : l \in SeqsUpTo(CandidateBases, MaxCand)}
    /\ append_subdirs \in {NoneArg, Given(<<"lib">>)}
    /\ LocatorIdle
    /\ PickleIdle

NextResolve == Construct

SpecResolve == InitResolve /\ [][NextResolve]_vars

\* the locator's life: construction with search_paths = [A, B], then accessor calls
Init ==
    /\ \E kA \in Kinds, kL \in {"none", "dir"}, kO \in {"none", "file"} :
         /\ dirs = FsDirs(kA, "dir", "none", "dir", kL, kO)
         /\ files = FsFiles(kA, "dir", kO)
    /\ search_paths = Given(<<A, B>>)
    /\ append_subdirs \in {NoneArg, Given(<<"lib">>)}
    /\ LocatorIdle
    /\ PickleIdle

Next == Construct \/ GetDatasetsPath \/ GetResultsPath \/ GetFiguresPath

Spec == Init /\ [][Next]_vars

InitPickle ==
    /\ dirs = {}
    /\ files = {}
    /\ search_paths = NoneArg
    /\ append_subdirs = NoneArg
    /\ LocatorIdle
    /\ PickleIdle

NextPickle == SavePickle \/ LoadPickle

SpecPickle == InitPickle /\ [][NextPickle]_vars

---------------------------------------------------------------------------
(* Claims *)

Range(f) == {f[i] : i \in DOMAIN f}

\* the indexes of list L whose entry has a child named project
Matches(L) == {i \in 1..Len(L) : Exists(dirs, files, L[i] \o <<project>>)}

Min(S) == CHOOSE m \in S : \A n \in S : m <= n

\* C1: ProjectPaths(project, search_paths=L) with a non-empty L, some entry of
\* which has a child named project, resolves base_path to L[i]/project for the
\* smallest such i; exists() is asked about L[1]/project .. L[i]/project in that
\* order and about nothing after index i.
C1_FirstMatchInOrder ==
    (pc # "new" /\ Truthy(search_paths) /\ ~append_subdirs.given
        /\ Matches(search_paths.list) # {})
    => LET L == search_paths.list
           i == Min(Matches(L))
       IN  /\ pc = "resolved"
           /\ base_path = L[i] \o <<project>>
           /\ checked = [k \in 1..i |-> L[k] \o <<project>>]

\* C1 witness: both entries of [B, A] hold the project and the first one wins
C1_Witness ==
    /\ pc = "resolved"
    /\ ~append_subdirs.given
    /\ search_paths = Given(<<B, A>>)
    /\ Matches(search_paths.list) = {1, 2}
    /\ base_path = B \o <<project>>
    /\ checked = <<B \o <<project>>>>

\* C2: for every caller-supplied list, the empty one included, none of whose
\* entries has a child named project, construction fails with FileNotFoundError,
\* yields no locator, and every supplied candidate has been tested.
C2_NoMatchAlwaysFails ==
    (pc # "new" /\ search_paths.given /\ Matches(search_paths.list) = {})
    => /\ pc = "failed"
       /\ error.kind = "FileNotFoundError"
       /\ base_path = NoPath
       /\ \A i \in 1..Len(search_paths.list) :
            search_paths.list[i] \o <<project>> \in Range(checked)

\* C3: a candidate matches only if candidate/project is a directory; a regular
\* file of that name is passed over.
C3_MatchIsDirectory ==
    \A i \in 1..Len(checked) :
        checked[i] \in files => (i < Len(checked) \/ error.kind = "FileNotFoundError")

\* C8: the FileNotFoundError message includes the project name and the search
\* locations that were attempted.
C8_MessageNamesProjectAndLocations ==
    error.kind = "FileNotFoundError"
    => /\ <<project>> \in Range(error.message.fields)
       /\ \A i \in 1..Len(candidate_paths(search_paths)) :
            candidate_paths(search_paths)[i] \in Range(error.message.fields)

SameCall(c1, c2) == c1.op = c2.op /\ c1.parts = c2.parts /\ c1.flag = c2.flag

\* C4: an accessor called again with the arguments of a call that returned
\* returns the same path(s), does not raise, and creates no directory.
C4_SecondCallIdempotent ==
    (ncalls >= 2 /\ SameCall(prev, last) /\ prev.raised = "")
    => /\ last.raised = ""
       /\ last.ret = prev.ret
       /\ dirs = last.before

\* C4 witness: get_results_path("jan", plots=True) returned twice in a row
C4_Witness ==
    /\ ncalls >= 2
    /\ SameCall(prev, last)
    /\ last.op = "get_results_path"
    /\ last.parts = <<"jan">>
    /\ last.flag = "True"
    /\ prev.raised = ""
    /\ last.raised = ""
    /\ prev.before # dirs

\* p and q have the same length and differ exactly at segment k
DifferOnlyAt(p, q, k) ==
    /\ Len(p) = Len(q)
    /\ \A j \in 1..Len(p) : (p[j] # q[j]) <=> (j = k)

\* C5: get_datasets_path(*P, processed=False) returns datasets_root/raw/P,
\* processed=True returns datasets_root/processed/P, the two differing only in
\* that segment; processed='both' returns the pair (raw, processed) in that order
\* and both directories exist afterwards.
C5_DatasetsPaths ==
    (last.op = "get_datasets_path" /\ last.raised = "")
    => LET raw == datasets_root \o <<"raw">> \o last.parts
           proc == datasets_root \o <<"processed">> \o last.parts
       IN  /\ last.flag = "False" => last.ret = <<Some(raw)>>
           /\ last.flag = "True" => last.ret = <<Some(proc)>>
           /\ last.flag = "both" =>
                (last.ret = <<Some(raw), Some(proc)>> /\ raw \in dirs /\ proc \in dirs)
           /\ (prev.op = "get_datasets_path" /\ prev.raised = "" /\ prev.parts = last.parts
                 /\ prev.flag = "False" /\ last.flag = "True")
              => DifferOnlyAt(prev.ret[1][1], last.ret[1][1], Len(datasets_root) + 1)

\* C5 witness: get_datasets_path("jan", processed='both') returned on a fresh root
C5_Witness ==
    /\ last.op = "get_datasets_path"
    /\ last.raised = ""
    /\ last.flag = "both"
    /\ last.parts = <<"jan">>
    /\ datasets_root \notin last.before
    /\ Len(last.ret) = 2

\* C6: get_results_path(*P, plots=True) returns (r, r/plots) with
\* r = results_root/P, both existing afterwards; plots=False returns (r, None)
\* and does not create r/plots.
C6_ResultsPaths ==
    (last.op = "get_results_path" /\ last.raised = "")
    => LET r == results_root \o last.parts
       IN  /\ r \in dirs
           /\ last.flag = "True" =>
                (last.ret = <<Some(r), Some(r \o <<"plots">>)>> /\ r \o <<"plots">> \in dirs)
           /\ last.flag = "False" =>
                /\ last.ret = <<Some(r), None>>
                /\ r \o <<"plots">> \in dirs => r \o <<"plots">> \in last.before

\* C6 witness: get_results_path(plots=False) returned and results_root/plots is absent
C6_Witness ==
    /\ last.op = "get_results_path"
    /\ last.raised = ""
    /\ last.flag = "False"
    /\ last.parts = <<>>
    /\ results_root \in dirs
    /\ results_root \o <<"plots">> \notin dirs

\* C7: once construction has succeeded the locator stays resolved, base_path
\* keeps the value resolved at construction through every accessor call, and the
\* three roots are base_path/01_Datasets, base_path/02_Results, base_path/03_Figures.
C7_BasePathSetOnce ==
    [][/\ pc = "resolved" => (pc' = "resolved" /\ base_path' = base_path)
       /\ pc' = "resolved" =>
            /\ base_path' = checked'[Len(checked')]
            /\ datasets_root' = base_path' \o <<"01_Datasets">>
            /\ results_root' = base_path' \o <<"02_Results">>
            /\ figures_root' = base_path' \o <<"03_Figures">>]_vars

\* C7 witness: a resolved locator after two accessor calls that returned
C7_Witness ==
    /\ pc = "resolved"
    /\ ncalls >= 2
    /\ prev.raised = ""
    /\ last.raised = ""
    /\ prev.op # last.op
    /\ base_path = ProjectA

\* C10: get_datasets_path in a single mode creates only the returned path and
\* its missing ancestors; the other variant's directory is not created.
C10_SingleModeCreatesOnlyReturned ==
    (last.op = "get_datasets_path" /\ last.raised = "" /\ last.flag \in {"False", "True"})
    => dirs = last.before \cup Chain(last.ret[1][1])

\* C9: when save_pickle fails, opening the file or serializing, the error is
\* logged and raised and file_path holds what it held before the call.
C9_FailedSaveLeavesDestination ==
    (pk.op = "save_pickle" /\ pk.raised # "")
    => /\ pk.logged = "[PickleHandler][ERROR] Failed to save object"
       /\ disk[pk.file_path] = pk.before

====
